---------------------------- MODULE Spec2Model ----------------------------
(***************************************************************************)
(* The two client-side game components of speakids-novo:                   *)
(*   - ChallengeGeneratorPage (daily-activity/blurry-image/page.tsx)       *)
(*   - MemoryGamePage         (daily-activity/memory-game/page.tsx)        *)
(* Each component is a set of React state cells plus event handlers,       *)
(* effects and async continuations.  A handler reads the values captured   *)
(* by the render it belongs to (its closure) and writes the state cells;   *)
(* an updater function (setX(prev => ...)) reads the cell itself.          *)
(* The server actions fetchDailyWord, fetchDailySentence and fetchNewStory *)
(* of app/actions.ts are modelled as functions of what their AI flow did.  *)
(***************************************************************************)
EXTENDS Integers, Sequences, FiniteSets, TLC

\* cg: state cells of ChallengeGeneratorPage (plus the number of
\* completeActivity() calls made since the round was started); cgView: the
\* values captured by the last render; cgBatch: events handled since that
\* render; cgLast: the last operation, the state it started from and the
\* render it ran against (history only).
\* cgRound: what was submitted since the round was started (history only).
VARIABLES cg, cgView, cgBatch, cgLast, cgRound

\* mg: state cells of MemoryGamePage (plus the number of completeActivity()
\* calls made since the last startNewGame); mgView: the values captured by the last
\* render; mgAsync: what is in flight (the generateMemoryGameCards request,
\* the mismatch delays with the flippedCards each checkMatch closed over);
\* mgEffects: the effects the last render left to run; mgLast: the last
\* operation and the state it started from (history only); mgPlayedAgain:
\* whether "Jogar Novamente" was used (history only, kept in SpecMemoryRounds).
VARIABLES mg, mgView, mgAsync, mgEffects, mgLast, mgPlayedAgain

\* sa: the last server action called, what its AI flow did and what the
\* action did in turn.
VARIABLES sa

cgVars == <<cg, cgView, cgBatch, cgLast, cgRound>>

mgVars == <<mg, mgView, mgAsync, mgEffects, mgLast, mgPlayedAgain>>

saVars == <<sa>>

vars == <<cg, cgView, cgBatch, cgLast, cgRound,
          mg, mgView, mgAsync, mgEffects, mgLast, mgPlayedAgain, sa>>

\* Events that may be handled against one render before React re-renders
\* (only in SpecBatched).
MaxBatch == 2

\* Pairs generateMemoryGameCards may return.
MaxPairs == 2

(***************************************************************************)
(* Strings are sequences of one-character strings; position i of the       *)
(* JavaScript string is element i+1.                                       *)
(***************************************************************************)
Str_dragon    == <<"d","r","a","g","o","n">>
Str_Ice_cream == <<"I","c","e"," ","c","r","e","a","m">>

\* What generateChallenge may resolve to: {imageUrl, word}.
Challenges ==
    { [word |-> Str_dragon,    imageUrl |-> "img-dragon"],
      [word |-> Str_Ice_cream, imageUrl |-> "img-ice-cream"] }

Difficulties == {"Easy", "Medium", "Hard"}

\* What the player may type into the guess input.
Guesses ==
    { <<"D","r","a","g","o","n"," ">>,
      <<" ","i","c","e"," ","C","R","E","A","M">>,
      <<"d","o","g">>,
      <<" "," ">> }

\* String.prototype.toLowerCase, one character.
LowerChar(c) ==
    CASE c = "A" -> "a" [] c = "C" -> "c" [] c = "D" -> "d" [] c = "E" -> "e"
      [] c = "G" -> "g" [] c = "I" -> "i" [] c = "M" -> "m" [] c = "N" -> "n"
      [] c = "O" -> "o" [] c = "R" -> "r" [] c = "T" -> "t"
      [] OTHER -> c

toLowerCase(s) == [i \in 1..Len(s) |-> LowerChar(s[i])]

RECURSIVE trimStart(_)
trimStart(s) ==
    IF s # <<>> /\ Head(s) = " " THEN trimStart(Tail(s)) ELSE s

RECURSIVE trimEnd(_)
trimEnd(s) ==
    IF s # <<>> /\ s[Len(s)] = " " THEN trimEnd(SubSeq(s, 1, Len(s) - 1)) ELSE s

\* String.prototype.trim
trim(s) == trimEnd(trimStart(s))

(***************************************************************************)
(* What the claims say about guesses, stated without the code's            *)
(* operators: a guess is blank when it holds nothing but whitespace, and   *)
(* names the target when, between leading and trailing spaces, it is the   *)
(* target letter for letter up to letter case.                             *)
(***************************************************************************)
CasePairs ==
    { <<"a","A">>, <<"c","C">>, <<"d","D">>, <<"e","E">>, <<"g","G">>,
      <<"i","I">>, <<"m","M">>, <<"n","N">>, <<"o","O">>, <<"r","R">>,
      <<"t","T">> }

SameLetter(a, b) == a = b \/ <<a, b>> \in CasePairs \/ <<b, a>> \in CasePairs

IsBlank(g) == \A k \in 1..Len(g) : g[k] = " "

NamesTarget(g, w) ==
    \E i \in 1..(Len(g) + 1) : \E j \in 0..Len(g) :
        /\ j - i + 1 = Len(w)
        /\ \A k \in 1..(i - 1) : g[k] = " "
        /\ \A k \in (j + 1)..Len(g) : g[k] = " "
        /\ \A k \in 1..Len(w) : SameLetter(g[i + k - 1], w[k])

\* The round's record after guess g is submitted against target w.
Submitted(round, g, w) ==
    IF IsBlank(g) THEN round
    ELSE [ incorrect    |-> round.incorrect + (IF NamesTarget(g, w) THEN 0 ELSE 1),
           correct      |-> round.correct + (IF NamesTarget(g, w) THEN 1 ELSE 0),
           lastAccepted |-> g ]

NewRound == [incorrect |-> 0, correct |-> 0, lastAccepted |-> <<>>]

(***************************************************************************)
(* ChallengeGeneratorPage                                                  *)
(***************************************************************************)
\* useState initial values (page.tsx 22-31).
cgInitial ==
    [ gameState       |-> "idle",
      imageUrl        |-> "null",
      correctWord     |-> <<>>,
      userGuess       |-> <<>>,
      difficulty      |-> "null",
      attempts        |-> 0,
      revealedIndices |-> {},
      hintsUsed       |-> 0,
      completeActivityCalls |-> 0 ]

NoOp == [op |-> "none"]

\* blurLevel without Math.max(0, ...).
blurLevel_unclamped(attempts) == 24 - attempts * 8

\* const blurLevel = useMemo(() => Math.max(0, 24 - attempts * 8), [attempts])
blurLevel(attempts) ==
    IF 24 - attempts * 8 > 0 THEN 24 - attempts * 8 ELSE 0

\* startNewChallenge without setAttempts(0) and setHintsUsed(0).
startNewChallenge_keepsCounts(s, selectedDifficulty) ==
    IF selectedDifficulty = "null" THEN s
    ELSE [s EXCEPT !.difficulty = selectedDifficulty,
                   !.gameState = "loading",
                   !.userGuess = <<>>,
                   !.revealedIndices = {},
                   !.completeActivityCalls = 0]

\* startNewChallenge up to its await: the resets and the request.
startNewChallenge(s, selectedDifficulty) ==
    IF selectedDifficulty = "null" THEN s
    ELSE [s EXCEPT !.difficulty = selectedDifficulty,
                   !.gameState = "loading",
                   !.userGuess = <<>>,
                   !.attempts = 0,
                   !.revealedIndices = {},
                   !.hintsUsed = 0,
                   !.completeActivityCalls = 0]

\* startNewChallenge after the await resolved with `challenge`.
challengeResolved(s, challenge) ==
    [s EXCEPT !.imageUrl = challenge.imageUrl,
              !.correctWord = challenge.word,
              !.gameState = "playing"]

\* startNewChallenge's catch branch.
challengeRejected(s) == [s EXCEPT !.gameState = "idle"]

\* isCorrect with the guess compared untrimmed.
isCorrect_untrimmed(userGuess, correctWord) ==
    toLowerCase(userGuess) = toLowerCase(correctWord)

\* const isCorrect = userGuess.trim().toLowerCase() === correctWord.toLowerCase()
isCorrect(userGuess, correctWord) ==
    toLowerCase(trim(userGuess)) = toLowerCase(correctWord)

\* handleGuessSubmit losing one guess late (attempts >= 3).
handleGuessSubmit_lateLoss(view, s) ==
    IF trim(view.userGuess) = <<>> THEN s
    ELSE IF toLowerCase(trim(view.userGuess)) = toLowerCase(view.correctWord)
         THEN [s EXCEPT !.gameState = "correct",
                        !.completeActivityCalls = @ + 1]
         ELSE IF view.attempts >= 3
              THEN [s EXCEPT !.attempts = @ + 1, !.gameState = "lost"]
              ELSE [s EXCEPT !.attempts = @ + 1]

\* handleGuessSubmit: `view` holds the values the handler closed over
\* (userGuess, correctWord, attempts); setAttempts(prev => prev + 1) reads
\* the state cell.
handleGuessSubmit(view, s) ==
    IF trim(view.userGuess) = <<>> THEN s
    ELSE IF isCorrect(view.userGuess, view.correctWord)
         THEN [s EXCEPT !.gameState = "correct",
                        !.completeActivityCalls = @ + 1]
         ELSE IF view.attempts >= 2
              THEN [s EXCEPT !.attempts = @ + 1, !.gameState = "lost"]
              ELSE [s EXCEPT !.attempts = @ + 1]

\* unrevealed computed without the test for spaces.
unrevealedOf_withSpaces(correctWord, revealed) ==
    { i \in 0..(Len(correctWord) - 1) : i \notin revealed }

\* Array.from(Array(correctWord.length).keys())
\*      .filter(i => !revealedIndices.has(i) && correctWord[i] !== ' ')
unrevealedOf(correctWord, revealed) ==
    { i \in 0..(Len(correctWord) - 1) :
        i \notin revealed /\ correctWord[i + 1] # " " }

\* revealCount rounded up: Math.ceil(unrevealed.length * 0.25).
revealCountOf_ceil(n) == (n + 3) \div 4

\* revealCount without the lower limit: Math.floor(unrevealed.length * 0.25).
revealCountOf_floor(n) == n \div 4

\* Math.max(1, Math.floor(unrevealed.length * 0.25))
revealCountOf(n) == IF n \div 4 > 1 THEN n \div 4 ELSE 1

\* The for loop of handleHint: every set indicesToReveal can end as, over
\* all outcomes of Math.random().
RECURSIVE revealLoop(_, _, _, _)
revealLoop(indicesToReveal, unrevealed, i, revealCount) ==
    IF i >= revealCount \/ unrevealed = {}
    THEN {indicesToReveal}
    ELSE UNION { revealLoop(indicesToReveal \cup {selectedIndex},
                            unrevealed \ {selectedIndex}, i + 1, revealCount) :
                 selectedIndex \in unrevealed }

\* handleHint: the states it may leave, given the render it closed over.
handleHint(view, s) ==
    LET unrevealed == unrevealedOf(view.correctWord, view.revealedIndices)
    IN  IF unrevealed = {} THEN {s}
        ELSE { [s EXCEPT !.hintsUsed = @ + 1, !.revealedIndices = r] :
               r \in revealLoop(view.revealedIndices, unrevealed, 0,
                                revealCountOf(Cardinality(unrevealed))) }

\* renderContent: which part of the page a render shows.
showsDifficultyButtons(view) == view.gameState = "idle"
showsPlayAgain(view) == view.gameState \in {"correct", "lost"}
showsForm(view) == view.gameState = "playing"

\* disabled={!userGuess} on the submit button.
submitDisabled(view) == view.userGuess = <<>>

\* correctWord.replace(/ /g, '').length
nonSpaceLength(correctWord) ==
    Cardinality({ i \in 1..Len(correctWord) : correctWord[i] # " " })

\* disabled={revealedIndices.size >= correctWord.replace(/ /g, '').length}
hintDisabled(view) ==
    Cardinality(view.revealedIndices) >= nonSpaceLength(view.correctWord)

(***************************************************************************)
(* Events of ChallengeGeneratorPage.  Each says what the handler does to   *)
(* the state cells; Rerender / Deferred say when React renders again.      *)
(***************************************************************************)
ClickDifficulty ==
    /\ showsDifficultyButtons(cgView)
    /\ \E d \in Difficulties : cg' = startNewChallenge(cg, d)
    /\ cgLast' = [op |-> "start", pre |-> cg, seen |-> cgView]
    /\ cgRound' = NewRound

ClickPlayAgain ==
    /\ showsPlayAgain(cgView)
    /\ cgView.difficulty # "null"
    /\ cg' = startNewChallenge(cg, cgView.difficulty)
    /\ cgLast' = [op |-> "start", pre |-> cg, seen |-> cgView]
    /\ cgRound' = NewRound

ChallengeResolved ==
    /\ cg.gameState = "loading"
    /\ \E challenge \in Challenges : cg' = challengeResolved(cg, challenge)
    /\ cgLast' = [op |-> "resolved", pre |-> cg, seen |-> cgView]
    /\ UNCHANGED cgRound

ChallengeRejected ==
    /\ cg.gameState = "loading"
    /\ cg' = challengeRejected(cg)
    /\ cgLast' = [op |-> "rejected", pre |-> cg, seen |-> cgView]
    /\ UNCHANGED cgRound

\* onChange={(e) => setUserGuess(e.target.value)}
TypeGuess ==
    /\ showsForm(cgView)
    /\ \E g \in Guesses \ {cg.userGuess} : cg' = [cg EXCEPT !.userGuess = g]
    /\ cgLast' = NoOp
    /\ UNCHANGED cgRound

SubmitGuess ==
    /\ showsForm(cgView)
    /\ ~submitDisabled(cgView)
    /\ cg' = handleGuessSubmit(cgView, cg)
    /\ cgLast' = [op |-> "submitGuess", pre |-> cg, seen |-> cgView]
    /\ cgRound' = Submitted(cgRound, cgView.userGuess, cgView.correctWord)

\* A click on the hint button; a disabled button delivers no click.
ClickHint ==
    /\ showsForm(cgView)
    /\ IF hintDisabled(cgView) THEN cg' = cg
       ELSE cg' \in handleHint(cgView, cg)
    /\ cgLast' = [op |-> "requestHint", pre |-> cg, seen |-> cgView]
    /\ UNCHANGED cgRound

\* React re-renders before the next event is handled.
Rerender == cgView' = cg' /\ cgBatch' = 0 /\ UNCHANGED <<mgVars, saVars>>

\* The event is handled, the re-render is still to come.
Deferred ==
    /\ cgBatch < MaxBatch
    /\ cgBatch' = cgBatch + 1
    /\ UNCHANGED cgView
    /\ UNCHANGED <<mgVars, saVars>>

Render ==
    /\ cgBatch > 0
    /\ cgView' = cg
    /\ cgBatch' = 0
    /\ cgLast' = NoOp
    /\ UNCHANGED <<cg, cgRound>>
    /\ UNCHANGED <<mgVars, saVars>>

CgInit ==
    /\ cg = cgInitial
    /\ cgView = cgInitial
    /\ cgBatch = 0
    /\ cgLast = NoOp
    /\ cgRound = NewRound


\* Every event is handled on a freshly rendered component.
CgClickDifficulty == ClickDifficulty /\ Rerender
CgClickPlayAgain == ClickPlayAgain /\ Rerender
CgChallengeResolved == ChallengeResolved /\ Rerender
CgChallengeRejected == ChallengeRejected /\ Rerender
CgTypeGuess == TypeGuess /\ Rerender
CgSubmitGuess == SubmitGuess /\ Rerender
CgClickHint == ClickHint /\ Rerender

ChallengeEvent ==
    \/ CgClickDifficulty
    \/ CgClickPlayAgain
    \/ CgChallengeResolved
    \/ CgChallengeRejected
    \/ CgTypeGuess
    \/ CgSubmitGuess
    \/ CgClickHint

\* A submit event may be handled without the component having re-rendered
\* yet; the event that follows it (a second submit, a hint click) then runs
\* against the render the first one saw (events dispatched within one task).
BatchedSubmitGuess == SubmitGuess /\ Deferred

BatchedEvent ==
    \/ CgClickDifficulty
    \/ CgClickPlayAgain
    \/ CgChallengeResolved
    \/ CgChallengeRejected
    \/ CgTypeGuess
    \/ BatchedSubmitGuess
    \/ CgClickHint
    \/ Render

(***************************************************************************)
(* MemoryGamePage                                                          *)
(***************************************************************************)
Range(f) == { f[i] : i \in DOMAIN f }

\* The words generateMemoryGameCards draws from, in the order it lists them.
WordPool == <<"cat", "dog", "sun", "hat">>

\* A result of generateMemoryGameCards: n {word, imageUrl} pairs.
fetchedCards(n) ==
    [i \in 1..n |-> [word |-> WordPool[i], imageUrl |-> <<"img", WordPool[i]>>]]

\* startNewGame's forEach giving both cards of a pair the id index * 2.
gameCards_sharedId(fetched) ==
    [k \in 1..(2 * Len(fetched)) |->
        LET index == (k - 1) \div 2
            card  == fetched[index + 1]
        IN  IF k % 2 = 1
            THEN [id |-> index * 2, type |-> "word", content |-> card.word,
                  pairId |-> card.word, isFlipped |-> FALSE, isMatched |-> FALSE]
            ELSE [id |-> index * 2, type |-> "image", content |-> card.imageUrl,
                  pairId |-> card.word, isFlipped |-> FALSE, isMatched |-> FALSE]]

\* startNewGame's forEach: two GameCards per fetched card.
gameCards(fetched) ==
    [k \in 1..(2 * Len(fetched)) |->
        LET index == (k - 1) \div 2
            card  == fetched[index + 1]
        IN  IF k % 2 = 1
            THEN [id |-> index * 2, type |-> "word", content |-> card.word,
                  pairId |-> card.word, isFlipped |-> FALSE, isMatched |-> FALSE]
            ELSE [id |-> index * 2 + 1, type |-> "image", content |-> card.imageUrl,
                  pairId |-> card.word, isFlipped |-> FALSE, isMatched |-> FALSE]]

RECURSIVE Orderings(_)
Orderings(S) ==
    IF S = {} THEN {<<>>}
    ELSE UNION { { <<x>> \o rest : rest \in Orderings(S \ {x}) } : x \in S }

\* shuffleArray: [...array].sort(() => Math.random() - 0.5) may leave the
\* elements in any order.
shuffleArray(array) ==
    { [k \in 1..Len(array) |-> array[order[k]]] :
      order \in Orderings(1..Len(array)) }

\* useState initial values, then the mount effect's startNewGame() up to
\* its await.  completeActivityCalls counts the calls of completeActivity
\* since the last startNewGame.
mgInitial ==
    [ cards        |-> <<>>,
      flippedCards |-> <<>>,
      gameState    |-> "loading",
      isChecking   |-> FALSE,
      completeActivityCalls |-> 0 ]

\* startNewGame up to its await.
startNewGame(s) ==
    [s EXCEPT !.gameState = "loading", !.flippedCards = <<>>,
              !.completeActivityCalls = 0]

\* startNewGame after the await resolved; `shuffled` is shuffleArray's result.
gameLoaded(s, shuffled) ==
    [s EXCEPT !.cards = shuffled, !.gameState = "playing"]

\* startNewGame's catch branch.
gameLoadFailed(s) == [s EXCEPT !.gameState = "playing"]

\* cards.find(c => c.id === cardId)?.isFlipped
foundFlipped(cards, cardId) ==
    LET hits == { i \in 1..Len(cards) : cards[i].id = cardId }
    IN  hits # {} /\ cards[CHOOSE i \in hits : \A j \in hits : i <= j].isFlipped

\* handleCardClick without the test of the clicked card's face.
handleCardClick_ignoresFace(view, s, cardId) ==
    IF view.isChecking \/ Len(view.flippedCards) = 2
    THEN s
    ELSE [s EXCEPT
            !.cards = [i \in 1..Len(view.cards) |->
                         IF view.cards[i].id = cardId
                         THEN [view.cards[i] EXCEPT !.isFlipped = TRUE]
                         ELSE view.cards[i]],
            !.flippedCards = Append(@, cardId)]

\* handleCardClick rejecting only a card that is already face-up.
handleCardClick_unguarded(view, s, cardId) ==
    IF foundFlipped(view.cards, cardId)
    THEN s
    ELSE [s EXCEPT
            !.cards = [i \in 1..Len(view.cards) |->
                         IF view.cards[i].id = cardId
                         THEN [view.cards[i] EXCEPT !.isFlipped = TRUE]
                         ELSE view.cards[i]],
            !.flippedCards = Append(@, cardId)]

\* handleCardClick: `view` holds the isChecking, flippedCards and cards the
\* handler closed over; setFlippedCards(prev => [...prev, cardId]) reads the
\* state cell.
handleCardClick(view, s, cardId) ==
    IF view.isChecking \/ Len(view.flippedCards) = 2
                       \/ foundFlipped(view.cards, cardId)
    THEN s
    ELSE [s EXCEPT
            !.cards = [i \in 1..Len(view.cards) |->
                         IF view.cards[i].id = cardId
                         THEN [view.cards[i] EXCEPT !.isFlipped = TRUE]
                         ELSE view.cards[i]],
            !.flippedCards = Append(@, cardId)]

\* cards.filter(c => flippedCards.includes(c.id))
flippedOf(cards, flippedCards) ==
    SelectSeq(cards, LAMBDA c : c.id \in Range(flippedCards))

\* checkMatch's match branch marking every card of the deck.
markMatched_all(prevCards, flippedCards) ==
    [i \in 1..Len(prevCards) |-> [prevCards[i] EXCEPT !.isMatched = TRUE]]

\* prevCards.map(c => flippedCards.includes(c.id) ? {...c, isMatched: true} : c)
markMatched(prevCards, flippedCards) ==
    [i \in 1..Len(prevCards) |->
        IF prevCards[i].id \in Range(flippedCards)
        THEN [prevCards[i] EXCEPT !.isMatched = TRUE] ELSE prevCards[i]]

\* checkMatch's mismatch branch turning every card face-down.
flipBack_all(prevCards, flippedCards) ==
    [i \in 1..Len(prevCards) |-> [prevCards[i] EXCEPT !.isFlipped = FALSE]]

\* prevCards.map(c => flippedCards.includes(c.id) ? {...c, isFlipped: false} : c)
flipBack(prevCards, flippedCards) ==
    [i \in 1..Len(prevCards) |->
        IF prevCards[i].id \in Range(flippedCards)
        THEN [prevCards[i] EXCEPT !.isFlipped = FALSE] ELSE prevCards[i]]

\* checkMatch up to its await (or to its end): "done" after a match,
\* "waiting" while the 1200 ms delay runs, "threw" when secondCard is
\* undefined, "skipped" when flippedCards.length !== 2.
checkMatchOutcome(view) ==
    LET pair == flippedOf(view.cards, view.flippedCards)
    IN  IF Len(view.flippedCards) # 2 THEN "skipped"
        ELSE IF Len(pair) < 2 THEN "threw"
        ELSE IF pair[1].pairId = pair[2].pairId THEN "done"
        ELSE "waiting"

\* checkMatch turning a mismatched pair face-down without waiting.
checkMatch_flipsBackAtOnce(view, s) ==
    LET outcome == checkMatchOutcome(view)
    IN  IF outcome = "skipped" THEN s
        ELSE IF outcome = "done"
        THEN [s EXCEPT !.cards = markMatched(@, view.flippedCards),
                       !.flippedCards = <<>>,
                       !.isChecking = FALSE]
        ELSE [s EXCEPT !.cards = flipBack(@, view.flippedCards),
                       !.isChecking = TRUE]

\* checkMatch up to its await, or to its end when there is none.
checkMatch(view, s) ==
    LET outcome == checkMatchOutcome(view)
    IN  IF outcome = "skipped" THEN s
        ELSE IF outcome = "done"
        THEN [s EXCEPT !.cards = markMatched(@, view.flippedCards),
                       !.flippedCards = <<>>,
                       !.isChecking = FALSE]
        ELSE [s EXCEPT !.isChecking = TRUE]

\* checkMatch after the delay, without setIsChecking(false).
checkMatchResumed_staysChecking(s, flippedCards) ==
    [s EXCEPT !.cards = flipBack(@, flippedCards),
              !.flippedCards = <<>>]

\* checkMatch after the delay, without turning the cards face-down.
checkMatchResumed_leavesFaceUp(s, flippedCards) ==
    [s EXCEPT !.flippedCards = <<>>,
              !.isChecking = FALSE]

\* checkMatch after the delay, without setFlippedCards([]).
checkMatchResumed_keepsSelected(s, flippedCards) ==
    [s EXCEPT !.cards = flipBack(@, flippedCards),
              !.isChecking = FALSE]

\* checkMatch after the delay: `flippedCards` is the value it closed over.
checkMatchResumed(s, flippedCards) ==
    [s EXCEPT !.cards = flipBack(@, flippedCards),
              !.flippedCards = <<>>,
              !.isChecking = FALSE]

\* const allMatched = useMemo(() => cards.length > 0 && cards.every(c => c.isMatched), [cards])
allMatched(cards) ==
    Len(cards) > 0 /\ \A i \in 1..Len(cards) : cards[i].isMatched

\* completeGame, the body of the [allMatched] effect.
completeGame(view, s) ==
    IF allMatched(view.cards)
    THEN [s EXCEPT !.gameState = "won", !.completeActivityCalls = @ + 1]
    ELSE s

\* The effects due if the completeGame effect had no dependency array.
effectsAfter_everyRender(prevView, view) ==
    [ checkMatch   |-> /\ (view.flippedCards # prevView.flippedCards
                            \/ view.cards # prevView.cards)
                       /\ Len(view.flippedCards) = 2,
      completeGame |-> allMatched(view.cards) ]

\* The effects a render leaves to run: those whose dependencies changed
\* since the previous render ([flippedCards, checkMatch] and [allMatched]).
\* An effect whose body would return at once is not listed.
effectsAfter(prevView, view) ==
    [ checkMatch   |-> /\ (view.flippedCards # prevView.flippedCards
                            \/ view.cards # prevView.cards)
                       /\ Len(view.flippedCards) = 2,
      completeGame |-> /\ allMatched(view.cards) # allMatched(prevView.cards)
                       /\ allMatched(view.cards) ]

NoEffects == [checkMatch |-> FALSE, completeGame |-> FALSE]

\* What the page shows: the loader, the "won" card or the grid.
showsGrid(view) == view.gameState \notin {"loading", "won"}
showsWonCard(view) == view.gameState = "won"

(***************************************************************************)
(* Events of MemoryGamePage.  An update made in an event handler or in an  *)
(* effect is rendered before anything else runs (Commit); an update made   *)
(* by an async continuation is rendered by a later task (MgRender).        *)
(***************************************************************************)
Commit ==
    /\ mgView' = mg'
    /\ mgEffects' = effectsAfter(mgView, mg')

\* onClick={() => handleCardClick(card.id)} of a card of the grid.
CardClick ==
    /\ showsGrid(mgView)
    /\ \E i \in 1..Len(mgView.cards) :
          /\ mg' = handleCardClick(mgView, mg, mgView.cards[i].id)
          /\ mgLast' = [op |-> "flip", pre |-> mg, cardId |-> mgView.cards[i].id]
    /\ IF mg' = mg THEN UNCHANGED <<mgView, mgEffects>> ELSE Commit
    /\ UNCHANGED mgAsync
    /\ UNCHANGED <<cgVars, saVars, mgPlayedAgain>>

\* The [flippedCards, checkMatch] effect.
CheckMatchEffect ==
    /\ mgEffects.checkMatch
    /\ mg' = checkMatch(mgView, mg)
    /\ mgAsync' = IF checkMatchOutcome(mgView) = "waiting"
                  THEN [mgAsync EXCEPT !.delays = @ \cup {mgView.flippedCards}]
                  ELSE mgAsync
    /\ mgView' = mg'
    /\ mgEffects' = [effectsAfter(mgView, mg') EXCEPT
                        !.completeGame = @ \/ mgEffects.completeGame]
    /\ mgLast' = [op |-> "checkMatch", pre |-> mg,
                  outcome |-> checkMatchOutcome(mgView)]
    /\ UNCHANGED <<cgVars, saVars, mgPlayedAgain>>

\* setTimeout(resolve, 1200) fires and checkMatch resumes.
MismatchDelayElapsed ==
    /\ \E flippedCards \in mgAsync.delays :
          /\ mg' = checkMatchResumed(mg, flippedCards)
          /\ mgAsync' = [mgAsync EXCEPT !.delays = @ \ {flippedCards}]
          /\ mgLast' = [op |-> "flipBack", pre |-> mg, flippedCards |-> flippedCards]
    /\ UNCHANGED <<mgView, mgEffects>>
    /\ UNCHANGED <<cgVars, saVars, mgPlayedAgain>>

\* The [allMatched] effect.
CompleteGameEffect ==
    /\ mgEffects.completeGame
    /\ mg' = completeGame(mgView, mg)
    /\ mgView' = mg'
    /\ mgEffects' = [effectsAfter(mgView, mg') EXCEPT
                        !.checkMatch = @ \/ mgEffects.checkMatch]
    /\ mgLast' = [op |-> "completeGame", pre |-> mg]
    /\ UNCHANGED mgAsync
    /\ UNCHANGED <<cgVars, saVars, mgPlayedAgain>>

\* "Jogar Novamente" on the won card.
NewGameClicked ==
    /\ showsWonCard(mgView)
    /\ ~mgAsync.loading
    /\ mg' = startNewGame(mg)
    /\ mgAsync' = [mgAsync EXCEPT !.loading = TRUE]
    /\ Commit
    /\ mgLast' = [op |-> "start", pre |-> mg]
    /\ UNCHANGED <<cgVars, saVars>>

ClickNewGame == NewGameClicked /\ UNCHANGED mgPlayedAgain

\* The same click, remembered.
ClickNewGameAgain == NewGameClicked /\ mgPlayedAgain' = TRUE

GameLoaded ==
    /\ mgAsync.loading
    /\ \E n \in 0..MaxPairs : \E shuffled \in shuffleArray(gameCards(fetchedCards(n))) :
          /\ mg' = gameLoaded(mg, shuffled)
          /\ mgLast' = [op |-> "loaded", pre |-> mg, fetched |-> fetchedCards(n)]
    /\ mgAsync' = [mgAsync EXCEPT !.loading = FALSE]
    /\ UNCHANGED <<mgView, mgEffects>>
    /\ UNCHANGED <<cgVars, saVars, mgPlayedAgain>>

\* generateMemoryGameCards resolves with one pair more than MaxPairs, so
\* that a pair can be matched while two others are still in play.
LargeGameLoaded ==
    /\ mgAsync.loading
    /\ \E shuffled \in shuffleArray(gameCards(fetchedCards(MaxPairs + 1))) :
          /\ mg' = gameLoaded(mg, shuffled)
          /\ mgLast' = [op |-> "loaded", pre |-> mg,
                        fetched |-> fetchedCards(MaxPairs + 1)]
    /\ mgAsync' = [mgAsync EXCEPT !.loading = FALSE]
    /\ UNCHANGED <<mgView, mgEffects>>
    /\ UNCHANGED <<cgVars, saVars, mgPlayedAgain>>

GameLoadFailed ==
    /\ mgAsync.loading
    /\ mg' = gameLoadFailed(mg)
    /\ mgAsync' = [mgAsync EXCEPT !.loading = FALSE]
    /\ mgLast' = [op |-> "loadFailed", pre |-> mg]
    /\ UNCHANGED <<mgView, mgEffects>>
    /\ UNCHANGED <<cgVars, saVars, mgPlayedAgain>>

\* React renders the updates an async continuation made.
MgRender ==
    /\ mgView # mg
    /\ mgView' = mg
    /\ mgEffects' = [ checkMatch   |-> effectsAfter(mgView, mg).checkMatch
                                         \/ mgEffects.checkMatch,
                      completeGame |-> effectsAfter(mgView, mg).completeGame
                                         \/ mgEffects.completeGame ]
    /\ mgLast' = NoOp
    /\ UNCHANGED <<mg, mgAsync>>
    /\ UNCHANGED <<cgVars, saVars, mgPlayedAgain>>

MgInit ==
    /\ mg = mgInitial
    /\ mgView = mgInitial
    /\ mgAsync = [loading |-> TRUE, delays |-> {}]
    /\ mgEffects = NoEffects
    /\ mgLast = NoOp
    /\ mgPlayedAgain = FALSE

\* An id that no card of any deck has: ids are index * 2 and index * 2 + 1.
UnknownCardId == 2 * MaxPairs

\* handleCardClick called with an id that belongs to no card.
FlipUnknownCard ==
    /\ showsGrid(mgView)
    /\ mg' = handleCardClick(mgView, mg, UnknownCardId)
    /\ mgLast' = [op |-> "flip", pre |-> mg, cardId |-> UnknownCardId]
    /\ IF mg' = mg THEN UNCHANGED <<mgView, mgEffects>> ELSE Commit
    /\ UNCHANGED mgAsync
    /\ UNCHANGED <<cgVars, saVars, mgPlayedAgain>>

MemoryEvent ==
    \/ CardClick
    \/ CheckMatchEffect
    \/ MismatchDelayElapsed
    \/ CompleteGameEffect
    \/ ClickNewGame
    \/ GameLoaded
    \/ GameLoadFailed
    \/ MgRender

(***************************************************************************)
(* Server actions.  An AI flow rejects, resolves with null, or resolves    *)
(* with an object; a field of the object is absent (undefined), the empty  *)
(* string or a non-empty string.                                           *)
(***************************************************************************)
Undefined == "<undefined>"

\* !x for a field x that is undefined or a string.
Falsy(x) == x = Undefined \/ x = ""

\* What a flow did: `value` is the object it resolved with.
Outcomes(objects, none) ==
    { [kind |-> "object", value |-> o] : o \in objects }
      \cup { [kind |-> k, value |-> none] : k \in {"rejected", "null"} }

DailyWordObjects ==
    [word : {Undefined, "", "TIGER", "ZEBRA"}, hint : {Undefined, "", "Um gato grande."}]

NoDailyWord == [word |-> Undefined, hint |-> Undefined]

DailySentenceObjects == [sentence : {Undefined, "", "The dog runs."}]

NoDailySentence == [sentence |-> Undefined]

SentenceLevels == {"A1", "B1"}

StoryObjects ==
    [title       : {Undefined, "", "The Red Kite", "A Day at Sea"},
     content     : {Undefined, "", "A kite flew over the hill."},
     level       : {Undefined, "", "A2"},
     translation : {Undefined, "", "Uma pipa voou sobre a colina."}]

NoStory ==
    [title |-> Undefined, content |-> Undefined, level |-> Undefined,
     translation |-> Undefined]

\* What a call did: it returned `value`, or it threw.
Returned(value) == [threw |-> FALSE, value |-> value]

\* fetchDailyWord: the try block throws when the flow rejected or the
\* result is incomplete; the catch block returns the fallback.
fetchDailyWord(outcome) ==
    LET result == outcome.value
        thrown == \/ outcome.kind = "rejected"
                  \/ outcome.kind = "null"
                  \/ Falsy(result.word)
                  \/ Falsy(result.hint)
    IN  IF thrown
        THEN Returned([word |-> "PANDA", hint |-> "Um urso preto e branco da China."])
        ELSE Returned(result)

\* fetchDailySentence
fetchDailySentence(level, outcome) ==
    LET result == outcome.value
        thrown == \/ outcome.kind = "rejected"
                  \/ outcome.kind = "null"
                  \/ Falsy(result.sentence)
    IN  IF thrown
        THEN Returned([sentence |-> "The cat is on the table."])
        ELSE Returned(result)

\* The fallback of fetchNewStory.
StoryFallback ==
    [title       |-> "O Dragão Amigável",
     content     |-> "Once upon a time, there was a friendly dragon. He did not breathe fire. He breathed bubbles! All the children in the village loved to play in his bubbles.",
     level       |-> "A1",
     translation |-> "Era uma vez um dragão amigável. Ele não cuspia fogo. Ele soprava bolhas! Todas as crianças da aldeia adoravam brincar em suas bolhas."]

\* fetchNewStory without the test of result.level.
fetchNewStory_levelUntested(outcome) ==
    LET result == outcome.value
        thrown == \/ outcome.kind = "rejected"
                  \/ outcome.kind = "null"
                  \/ Falsy(result.title)
                  \/ Falsy(result.content)
    IN  IF thrown THEN Returned(StoryFallback) ELSE Returned(result)

\* fetchNewStory: title, content and level are tested, translation is not.
fetchNewStory(outcome) ==
    LET result == outcome.value
        thrown == \/ outcome.kind = "rejected"
                  \/ outcome.kind = "null"
                  \/ Falsy(result.title)
                  \/ Falsy(result.content)
                  \/ Falsy(result.level)
    IN  IF thrown THEN Returned(StoryFallback) ELSE Returned(result)

NoCall == [action |-> "none"]

FetchDailyWord ==
    /\ \E outcome \in Outcomes(DailyWordObjects, NoDailyWord) :
          sa' = [action |-> "fetchDailyWord", outcome |-> outcome,
                 did |-> fetchDailyWord(outcome)]
    /\ UNCHANGED <<cgVars, mgVars>>

FetchDailySentence ==
    /\ \E level \in SentenceLevels :
       \E outcome \in Outcomes(DailySentenceObjects, NoDailySentence) :
          sa' = [action |-> "fetchDailySentence", level |-> level,
                 outcome |-> outcome,
                 did |-> fetchDailySentence(level, outcome)]
    /\ UNCHANGED <<cgVars, mgVars>>

FetchNewStory ==
    /\ \E outcome \in Outcomes(StoryObjects, NoStory) :
          sa' = [action |-> "fetchNewStory", outcome |-> outcome,
                 did |-> fetchNewStory(outcome)]
    /\ UNCHANGED <<cgVars, mgVars>>

SaInit == sa = NoCall

(***************************************************************************)
(* Specifications: one page is mounted at a time, and the cells of the     *)
(* other stay as constructed.                                              *)
(***************************************************************************)
Init == CgInit /\ MgInit /\ SaInit

NextChallenge == ChallengeEvent

SpecChallenge == Init /\ [][NextChallenge]_vars

NextBatched == BatchedEvent

SpecBatched == Init /\ [][NextBatched]_vars

NextMemory == MemoryEvent

SpecMemory == Init /\ [][NextMemory]_vars

\* The memory game with its scheduling: React runs the effects a render
\* left, the 1200 ms timer fires, and React renders the updates an async
\* continuation made.
SpecMemoryFair ==
    /\ SpecMemory
    /\ WF_vars(CheckMatchEffect)
    /\ WF_vars(MismatchDelayElapsed)
    /\ WF_vars(CompleteGameEffect)
    /\ WF_vars(MgRender)

\* The memory game with handleCardClick also called for ids of no card.
NextMemoryMisuse ==
    \/ CardClick
    \/ FlipUnknownCard
    \/ CheckMatchEffect
    \/ MismatchDelayElapsed
    \/ CompleteGameEffect
    \/ ClickNewGame
    \/ GameLoaded
    \/ GameLoadFailed
    \/ MgRender

SpecMemoryMisuse == Init /\ [][NextMemoryMisuse]_vars

\* The memory game with the use of "Jogar Novamente" remembered.
NextMemoryRounds ==
    \/ CardClick
    \/ CheckMatchEffect
    \/ MismatchDelayElapsed
    \/ CompleteGameEffect
    \/ ClickNewGameAgain
    \/ GameLoaded
    \/ GameLoadFailed
    \/ MgRender

SpecMemoryRounds == Init /\ [][NextMemoryRounds]_vars

\* The memory game with decks of up to MaxPairs + 1 pairs.
NextMemoryLarge ==
    \/ CardClick
    \/ CheckMatchEffect
    \/ MismatchDelayElapsed
    \/ CompleteGameEffect
    \/ ClickNewGame
    \/ GameLoaded
    \/ LargeGameLoaded
    \/ GameLoadFailed
    \/ MgRender

SpecMemoryLarge == Init /\ [][NextMemoryLarge]_vars

\* Calls of the server actions.
NextActions ==
    \/ FetchDailyWord
    \/ FetchDailySentence
    \/ FetchNewStory

SpecActions == Init /\ [][NextActions]_vars

(***************************************************************************)
(* Claims about ChallengeGeneratorPage                                     *)
(***************************************************************************)
\* maxAttempts: "3 total attempts (0, 1, 2)".
MaxAttempts == 3

NonSpacePositions(w) == { i \in 0..(Len(w) - 1) : w[i + 1] # " " }

\* The unrevealed non-space positions the last operation started from.
UnrevealedBefore ==
    NonSpacePositions(cgLast.pre.correctWord) \ cgLast.pre.revealedIndices

NewlyRevealed == cg.revealedIndices \ cgLast.pre.revealedIndices

\* C1: a guess that is the target word, in any letter case and with any
\* leading or trailing spaces, submitted in a playing round (in particular
\* right after the start) leaves the round Won.
C1_TargetGuessWins ==
    ( /\ cgLast.op = "submitGuess"
      /\ cgLast.pre.gameState = "playing"
      /\ NamesTarget(cgLast.seen.userGuess, cgLast.pre.correctWord) )
    => cg.gameState = "correct"

\* "dragon" at Easy, first guess "Dragon ": Won.
C1_Witness ==
    /\ cgLast.op = "submitGuess"
    /\ cgLast.pre.gameState = "playing"
    /\ cgLast.pre.difficulty = "Easy"
    /\ cgLast.pre.correctWord = Str_dragon
    /\ cgLast.pre.attempts = 0
    /\ cgLast.pre.hintsUsed = 0
    /\ cgRound.incorrect = 0
    /\ cgLast.seen.userGuess = <<"D","r","a","g","o","n"," ">>
    /\ cg.gameState = "correct"

\* C2: with no correct guess in the round, the third non-blank incorrect
\* guess leaves status Lost with attempts = 3, and fewer than three leave
\* the round Playing.
C2_ThreeMissesLose ==
    ( /\ cg.gameState \in {"playing", "correct", "lost"}
      /\ cgRound.correct = 0 )
    => /\ cgRound.incorrect = MaxAttempts
          => cg.gameState = "lost" /\ cg.attempts = MaxAttempts
       /\ cgRound.incorrect < MaxAttempts => cg.gameState = "playing"

C2_Witness ==
    /\ cgLast.op = "submitGuess"
    /\ cgRound.correct = 0
    /\ cgRound.incorrect = MaxAttempts
    /\ cgLast.pre.gameState = "playing"
    /\ cg.gameState = "lost"
    /\ cg.attempts = MaxAttempts

\* C3: attempts never exceeds 3; Lost only with attempts = 3 and no correct
\* guess in the round; Won only if the last accepted guess names the target
\* -- for every sequence of events, also those handled before the re-render.
C3_StatusInvariant ==
    /\ cg.attempts <= MaxAttempts
    /\ cg.gameState = "lost"
          => cg.attempts = MaxAttempts /\ cgRound.correct = 0
    /\ cg.gameState = "correct"
          => NamesTarget(cgRound.lastAccepted, cg.correctWord)

\* C4: a guess submitted while status is not Playing, or blank after
\* trimming, changes nothing (no state cell, no completeActivity call).
C4_RejectedGuessChangesNothing ==
    ( /\ cgLast.op = "submitGuess"
      /\ (cgLast.pre.gameState # "playing" \/ IsBlank(cgLast.seen.userGuess)) )
    => cg = cgLast.pre

\* C5: once Won or Lost, neither submitGuess nor requestHint changes status,
\* attempts, revealedIndices or hintsUsed.
C5_TerminalRoundIsFrozen ==
    ( /\ cgLast.op \in {"submitGuess", "requestHint"}
      /\ cgLast.pre.gameState \in {"correct", "lost"} )
    => /\ cg.gameState = cgLast.pre.gameState
       /\ cg.attempts = cgLast.pre.attempts
       /\ cg.revealedIndices = cgLast.pre.revealedIndices
       /\ cg.hintsUsed = cgLast.pre.hintsUsed

\* C6 as stated: a hint requested with n > 0 unrevealed non-space positions
\* reveals exactly ceil(n * 0.25) of them and counts one hint.
C6_HintRevealsCeilQuarter ==
    (cgLast.op = "requestHint" /\ UnrevealedBefore # {})
    => /\ Cardinality(NewlyRevealed) = (Cardinality(UnrevealedBefore) + 3) \div 4
       /\ NewlyRevealed \subseteq UnrevealedBefore
       /\ cgLast.pre.revealedIndices \subseteq cg.revealedIndices
       /\ cg.hintsUsed = cgLast.pre.hintsUsed + 1

\* C6 amended: the hint reveals exactly max(1, floor(n * 0.25)) of the n
\* unrevealed non-space positions (one while n < 8, a quarter rounded down
\* from then on) and counts one hint.
C6_HintRevealsFloorQuarter ==
    (cgLast.op = "requestHint" /\ UnrevealedBefore # {})
    => /\ Cardinality(NewlyRevealed) =
             (IF Cardinality(UnrevealedBefore) < 8 THEN 1
              ELSE Cardinality(UnrevealedBefore) \div 4)
       /\ NewlyRevealed \subseteq UnrevealedBefore
       /\ cgLast.pre.revealedIndices \subseteq cg.revealedIndices
       /\ cg.hintsUsed = cgLast.pre.hintsUsed + 1

\* A second hint on "Ice cream": 6 positions unrevealed, one more revealed
\* (after a first hint that revealed two of eight).
C6_Witness ==
    /\ cgLast.op = "requestHint"
    /\ cgLast.pre.correctWord = Str_Ice_cream
    /\ Cardinality(cgLast.pre.revealedIndices) = 2
    /\ Cardinality(UnrevealedBefore) = 6
    /\ Cardinality(NewlyRevealed) = 1
    /\ cg.hintsUsed = 2

\* C7: revealedIndices holds only positions of the target word that are not
\* spaces, and a hint leaves it a superset of what it was.
C7_RevealedValidAndGrowing ==
    /\ cg.revealedIndices \subseteq NonSpacePositions(cg.correctWord)
    /\ cgLast.op = "requestHint"
          => cgLast.pre.revealedIndices \subseteq cg.revealedIndices

C7_Witness ==
    /\ cgLast.op = "requestHint"
    /\ cg.correctWord = Str_Ice_cream
    /\ cgLast.pre.revealedIndices # {}
    /\ cgLast.pre.revealedIndices \subseteq cg.revealedIndices
    /\ cgLast.pre.revealedIndices # cg.revealedIndices
    /\ Cardinality(cg.revealedIndices) = 8

\* C8: a hint requested while a non-space position is unrevealed reveals at
\* least one more; so hintsUsed never exceeds the number of revealed
\* positions nor the number of non-space characters; and a hint requested
\* when all are revealed changes neither revealedIndices nor hintsUsed.
C8_HintsTerminate ==
    /\ (cgLast.op = "requestHint" /\ UnrevealedBefore # {})
          => NewlyRevealed # {}
    /\ cg.hintsUsed <= Cardinality(cg.revealedIndices)
    /\ Cardinality(cg.revealedIndices)
          <= Cardinality(NonSpacePositions(cg.correctWord))
    /\ (cgLast.op = "requestHint" /\ UnrevealedBefore = {})
          => /\ cg.revealedIndices = cgLast.pre.revealedIndices
             /\ cg.hintsUsed = cgLast.pre.hintsUsed

\* The hint button pressed again after the last letter of "dragon" was
\* revealed by the sixth hint.
C8_Witness ==
    /\ cgLast.op = "requestHint"
    /\ cgLast.pre.correctWord = Str_dragon
    /\ UnrevealedBefore = {}
    /\ cgLast.pre.hintsUsed = 6
    /\ cg.hintsUsed = 6
    /\ cg.revealedIndices = 0..5

(***************************************************************************)
(* Claims about MemoryGamePage                                             *)
(***************************************************************************)
\* The cards of `cards` whose id is in `ids`.
CardsWithId(cards, ids) ==
    { cards[i] : i \in { j \in 1..Len(cards) : cards[j].id \in ids } }

\* C9: flippedCards never holds more than two ids; while it holds two, their
\* evaluation is due or waiting for the mismatch delay; and when the
\* evaluation ends (a match, or the delay elapsing) flippedCards is empty and
\* the two cards are both matched or both face-down again.
C9_SelectedAtMostTwoThenCleared ==
    /\ Len(mg.flippedCards) <= 2
    /\ Len(mg.flippedCards) = 2
          => mgEffects.checkMatch \/ mg.flippedCards \in mgAsync.delays
    /\ (mgLast.op = "checkMatch" /\ mgLast.outcome = "done")
          => /\ mg.flippedCards = <<>>
             /\ \A c \in CardsWithId(mg.cards, Range(mgLast.pre.flippedCards)) :
                   c.isMatched
    /\ mgLast.op = "flipBack"
          => /\ mg.flippedCards = <<>>
             /\ \A c \in CardsWithId(mg.cards, Range(mgLast.flippedCards)) :
                   ~c.isFlipped /\ ~c.isMatched

\* A mismatched pair flipped back after the delay.
C9_Witness ==
    /\ mgLast.op = "flipBack"
    /\ Len(mgLast.pre.flippedCards) = 2
    /\ mgLast.pre.isChecking
    /\ Cardinality(CardsWithId(mgLast.pre.cards, Range(mgLast.flippedCards))) = 2
    /\ \A c \in CardsWithId(mgLast.pre.cards, Range(mgLast.flippedCards)) :
          c.isFlipped
    /\ mg.flippedCards = <<>>
    /\ \A c \in CardsWithId(mg.cards, Range(mgLast.flippedCards)) : ~c.isFlipped

\* C10: a click on a card while two cards are selected (their evaluation not
\* yet done, the mismatch delay included) changes nothing: not the cards,
\* not flippedCards, not the round status.
C10_ThirdFlipIsNoOp ==
    (mgLast.op = "flip" /\ Len(mgLast.pre.flippedCards) = 2)
    => /\ mg.cards = mgLast.pre.cards
       /\ mg.flippedCards = mgLast.pre.flippedCards
       /\ mg.gameState = mgLast.pre.gameState
       /\ mg.isChecking = mgLast.pre.isChecking

\* A face-down third card clicked during the mismatch delay.
C10_Witness ==
    /\ mgLast.op = "flip"
    /\ Len(mgLast.pre.flippedCards) = 2
    /\ mgLast.pre.isChecking
    /\ mgLast.pre.flippedCards \in mgAsync.delays
    /\ mgLast.cardId \notin Range(mgLast.pre.flippedCards)
    /\ \E c \in CardsWithId(mgLast.pre.cards, {mgLast.cardId}) :
          ~c.isFlipped /\ ~c.isMatched
    /\ mg = mgLast.pre

\* The cards of `cards` at the positions whose id is not in `ids`.
OtherCards(cards, ids) ==
    [i \in { j \in 1..Len(cards) : cards[j].id \notin ids } |-> cards[i]]

\* C11: a pair with different pairIds stays face-up (and selected) as long
\* as its 1200 ms delay is running: checkMatch itself turns no card; the
\* pair is turned face-down only when the delay elapses, and in the state
\* right after that flippedCards is empty, neither card is matched and no
\* other card has changed.
C11_MismatchFlipsBackAfterDelay ==
    /\ \A fc \in mgAsync.delays :
          /\ mg.flippedCards = fc
          /\ Cardinality(CardsWithId(mg.cards, Range(fc))) = 2
          /\ \A c \in CardsWithId(mg.cards, Range(fc)) :
                c.isFlipped /\ ~c.isMatched
    /\ (mgLast.op = "checkMatch" /\ mgLast.outcome = "waiting")
          => /\ mg.cards = mgLast.pre.cards
             /\ mgLast.pre.flippedCards \in mgAsync.delays
    /\ mgLast.op = "flipBack"
          => /\ mg.flippedCards = <<>>
             /\ mgLast.flippedCards \notin mgAsync.delays
             /\ \A c \in CardsWithId(mg.cards, Range(mgLast.flippedCards)) :
                   ~c.isFlipped /\ ~c.isMatched
             /\ Len(mg.cards) = Len(mgLast.pre.cards)
             /\ OtherCards(mg.cards, Range(mgLast.flippedCards))
                   = OtherCards(mgLast.pre.cards, Range(mgLast.flippedCards))

\* Two cards of different pairIds, face-up through the delay, turned
\* face-down by its end.
C11_Witness ==
    /\ mgLast.op = "flipBack"
    /\ \E c, d \in CardsWithId(mgLast.pre.cards, Range(mgLast.flippedCards)) :
          /\ c.pairId # d.pairId
          /\ c.isFlipped /\ d.isFlipped
    /\ \A c \in CardsWithId(mg.cards, Range(mgLast.flippedCards)) :
          ~c.isFlipped /\ ~c.isMatched
    /\ mg.flippedCards = <<>>
    /\ mgAsync.delays = {}

\* The positions of `cards` that carry pairId `p`.
PositionsOfPair(cards, p) == { i \in 1..Len(cards) : cards[i].pairId = p }

\* C12: a game loaded from N fetched cards with distinct words has exactly
\* 2 * N cards with pairwise distinct ids and exactly N pairIds, each on
\* exactly two cards, one of type word and one of type image; every card
\* is face-down and unmatched, in whatever order shuffleArray left them.
C12_StartBuildsTwoCardsPerPair ==
    mgLast.op = "loaded"
    => LET N     == Len(mgLast.fetched)
           cards == mg.cards
           pairs == { cards[i].pairId : i \in 1..Len(cards) }
       IN  /\ Len(cards) = 2 * N
           /\ \A i, j \in 1..Len(cards) : cards[i].id = cards[j].id => i = j
           /\ Cardinality(pairs) = N
           /\ pairs = { mgLast.fetched[i].word : i \in 1..N }
           /\ \A p \in pairs :
                 /\ Cardinality(PositionsOfPair(cards, p)) = 2
                 /\ { cards[i].type : i \in PositionsOfPair(cards, p) }
                       = {"word", "image"}
           /\ \A i \in 1..Len(cards) :
                 ~cards[i].isFlipped /\ ~cards[i].isMatched

\* "cat" and "dog" loaded, and the shuffle moved the cards.
C12_Witness ==
    /\ mgLast.op = "loaded"
    /\ { mgLast.fetched[i].word : i \in 1..Len(mgLast.fetched) } = {"cat", "dog"}
    /\ Len(mg.cards) = 4
    /\ mg.cards # gameCards(mgLast.fetched)
    /\ mg.gameState = "playing"

\* C13: when the two selected cards share a pairId, checkMatch marks both
\* matched at once (no delay is started and isChecking is not left set),
\* empties flippedCards, and leaves every other card as it was.
C13_MatchMarksBothAtOnce ==
    ( /\ mgLast.op = "checkMatch"
      /\ Len(mgLast.pre.flippedCards) = 2
      /\ \E p \in { c.pairId : c \in CardsWithId(mgLast.pre.cards,
                                                    Range(mgLast.pre.flippedCards)) } :
            CardsWithId(mgLast.pre.cards, Range(mgLast.pre.flippedCards))
              = { c \in Range(mgLast.pre.cards) : c.pairId = p } )
    => /\ mgLast.outcome = "done"
       /\ \A c \in CardsWithId(mg.cards, Range(mgLast.pre.flippedCards)) :
             c.isMatched /\ c.isFlipped
       /\ mg.flippedCards = <<>>
       /\ ~mg.isChecking
       /\ mgAsync.delays = {}
       /\ Len(mg.cards) = Len(mgLast.pre.cards)
       /\ OtherCards(mg.cards, Range(mgLast.pre.flippedCards))
             = OtherCards(mgLast.pre.cards, Range(mgLast.pre.flippedCards))

\* The two "cat" cards matched while the two "dog" cards lie face-down.
C13_Witness ==
    /\ mgLast.op = "checkMatch"
    /\ mgLast.outcome = "done"
    /\ Len(mg.cards) = 4
    /\ \A i \in 1..4 : mg.cards[i].isMatched <=> mg.cards[i].pairId = "cat"
    /\ \A i \in 1..4 : mg.cards[i].isFlipped <=> mg.cards[i].pairId = "cat"
    /\ \A i \in 1..4 : ~mgLast.pre.cards[i].isMatched
    /\ mg.flippedCards = <<>>

\* C14: in every round, the match that makes allMatched true leaves the
\* completeGame effect due, and that effect sets gameState to 'won' and
\* calls completeActivity; since the last startNewGame completeActivity was
\* called once if the round is won and not at all otherwise, never twice,
\* also in rounds started with "Jogar Novamente".
C14_WonNotifiesOncePerRound ==
    /\ mg.completeActivityCalls <= 1
    /\ mg.gameState = "won" <=> mg.completeActivityCalls = 1
    /\ (mgLast.op = "checkMatch" /\ allMatched(mg.cards))
          => /\ mgEffects.completeGame
             /\ mg.completeActivityCalls = 0
    /\ mgEffects.completeGame
          => allMatched(mg.cards) /\ mg.completeActivityCalls = 0
    /\ mgLast.op = "completeGame"
          => /\ mg.gameState = "won"
             /\ allMatched(mg.cards)
             /\ mgLast.pre.completeActivityCalls = 0
             /\ mg.completeActivityCalls = 1
             /\ ~mgEffects.completeGame

\* A round started with "Jogar Novamente" just won, with one call.
C14_Witness ==
    /\ mgLast.op = "completeGame"
    /\ mgPlayedAgain
    /\ Len(mg.cards) = 4
    /\ allMatched(mg.cards)
    /\ mg.gameState = "won"
    /\ mg.completeActivityCalls = 1

\* C15: since the last startNewChallenge completeActivity was called exactly
\* once if the round is 'correct' and not at all otherwise, whatever
\* submits were handled (a repeated submit of the correct word included).
C15_NotifiedOncePerWonRound ==
    /\ cg.gameState = "correct" => cg.completeActivityCalls = 1
    /\ cg.gameState # "correct" => cg.completeActivityCalls = 0

\* C16: when the content source fails during a start, the page is left in a
\* state that is not 'playing' (so the user can start again), and the
\* cards, the word and the image are those from before the start: nothing
\* is made up.
C16_FailedStartIsNotPlaying ==
    /\ cgLast.op = "rejected"
          => /\ cg.gameState # "playing"
             /\ cg.correctWord = cgLast.pre.correctWord
             /\ cg.imageUrl = cgLast.pre.imageUrl
    /\ mgLast.op = "loadFailed"
          => /\ mg.gameState # "playing"
             /\ mg.cards = mgLast.pre.cards

\* The ids of the cards of `cards`.
CardIds(cards) == { cards[i].id : i \in 1..Len(cards) }

\* C17: handleCardClick with an id that belongs to no card changes neither
\* cards nor flippedCards; no run of checkMatch throws; and isChecking is
\* never left set without a mismatch delay that will clear it.
C17_UnknownIdIsNoOp ==
    /\ (mgLast.op = "flip" /\ mgLast.cardId \notin CardIds(mgLast.pre.cards))
          => /\ mg.cards = mgLast.pre.cards
             /\ mg.flippedCards = mgLast.pre.flippedCards
    /\ mgLast.op = "checkMatch" => mgLast.outcome # "threw"
    /\ mg.isChecking => mgAsync.delays # {}

\* C18: a click on a card that is face-up or matched changes neither cards
\* nor flippedCards; hence flippedCards never holds an id twice, and
\* checkMatch always finds two different cards to compare.
C18_FaceUpFlipIsNoOp ==
    /\ ( /\ mgLast.op = "flip"
          /\ \E c \in CardsWithId(mgLast.pre.cards, {mgLast.cardId}) :
                c.isFlipped \/ c.isMatched )
          => /\ mg.cards = mgLast.pre.cards
             /\ mg.flippedCards = mgLast.pre.flippedCards
    /\ \A i, j \in 1..Len(mg.flippedCards) :
          mg.flippedCards[i] = mg.flippedCards[j] => i = j
    /\ mgLast.op = "checkMatch"
          => /\ mgLast.outcome \in {"done", "waiting"}
             /\ Cardinality(CardsWithId(mgLast.pre.cards,
                                         Range(mgLast.pre.flippedCards))) = 2

\* The one selected card clicked again, with nothing else in the way.
C18_Witness ==
    /\ mgLast.op = "flip"
    /\ mgLast.pre.flippedCards = <<mgLast.cardId>>
    /\ ~mgLast.pre.isChecking
    /\ \E c \in CardsWithId(mgLast.pre.cards, {mgLast.cardId}) :
          c.isFlipped /\ ~c.isMatched
    /\ \E c \in Range(mgLast.pre.cards) : c.isMatched
    /\ mg = mgLast.pre

\* C19: whenever the page is past loading and no completeGame effect is
\* still due, gameState is 'won' exactly when the deck is non-empty and
\* every card is matched.
C19_WonIffAllMatched ==
    (mg.gameState # "loading" /\ ~mgEffects.completeGame)
    => (mg.gameState = "won" <=> allMatched(mg.cards))

\* C20: in every state the ids in flippedCards are exactly the ids of the
\* cards that are face-up and not matched.
C20_SelectedAreFaceUpUnmatched ==
    Range(mg.flippedCards)
      = { c.id : c \in { d \in Range(mg.cards) : d.isFlipped /\ ~d.isMatched } }

\* One card selected next to a matched pair, which is face-up as well.
C20_Witness ==
    /\ Len(mg.flippedCards) = 1
    /\ \E c \in Range(mg.cards) : c.isFlipped /\ c.isMatched
    /\ \E c \in Range(mg.cards) :
          c.id = mg.flippedCards[1] /\ c.isFlipped /\ ~c.isMatched
    /\ mgLast.op = "flip"

\* What handleCardClick tests besides the clicked card: a click on a
\* face-down card is accepted on this render.
AcceptsFlips ==
    /\ ~mgView.isChecking
    /\ Len(mgView.flippedCards) < 2
    /\ mgView.cards = mg.cards

\* C21: once two cards are selected the evaluation completes: eventually
\* flippedCards is empty and isChecking is false again, in the state cells
\* and on the render, so that a click on a face-down card is accepted.
C21_EvaluationCompletes ==
    (Len(mg.flippedCards) = 2)
      ~> (mg.flippedCards = <<>> /\ ~mg.isChecking /\ AcceptsFlips)

\* The mismatch delay has just elapsed: the cells accept flips again, the
\* render that will is still to come.
C21_Witness ==
    /\ mgLast.op = "flipBack"
    /\ Len(mgLast.pre.flippedCards) = 2
    /\ mgLast.pre.isChecking
    /\ mg.flippedCards = <<>>
    /\ ~mg.isChecking
    /\ mgView.isChecking
    /\ ~AcceptsFlips

\* attempts, revealedIndices and hintsUsed as a round starts with them.
FreshRound(s) ==
    s.attempts = 0 /\ s.revealedIndices = {} /\ s.hintsUsed = 0

\* C22: startNewChallenge resets attempts, revealedIndices and hintsUsed
\* whatever the previous round left, they stay so while the challenge
\* loads, and the round enters 'playing' with them and with correctWord
\* and imageUrl of one and the same generateChallenge result.
C22_RoundEntersPlayingFresh ==
    /\ cgLast.op = "start" => FreshRound(cg) /\ cg.gameState = "loading"
    /\ cg.gameState = "loading" => FreshRound(cg)
    /\ cgLast.op = "resolved"
          => /\ cg.gameState = "playing"
             /\ FreshRound(cg)
             /\ cg.userGuess = <<>>
             /\ [word |-> cg.correctWord, imageUrl |-> cg.imageUrl] \in Challenges

\* A replayed round enters 'playing' with another word than the round
\* before it.
C22_Witness ==
    /\ cgLast.op = "resolved"
    /\ cgLast.pre.gameState = "loading"
    /\ cgLast.pre.correctWord # <<>>
    /\ cgLast.pre.correctWord # cg.correctWord
    /\ cgLast.pre.imageUrl # cg.imageUrl
    /\ cg.gameState = "playing"
    /\ FreshRound(cg)

\* C23: blurLevel is the larger of 0 and 24 - 8 * attempts, so it is never
\* negative, and within a round it never increases: a submit or a hint
\* leaves it at most what it was.
C23_BlurLevelClamped ==
    LET level == blurLevel(cg.attempts)
        raw   == 24 - 8 * cg.attempts
    IN  /\ level >= 0
        /\ level >= raw
        /\ level \in {0, raw}
        /\ cgLast.op \in {"submitGuess", "requestHint"}
              => /\ cg.attempts >= cgLast.pre.attempts
                 /\ level <= blurLevel(cgLast.pre.attempts)

\* A fourth miss in one round: 24 - 8 * attempts is negative, blurLevel 0.
C23_Witness ==
    /\ cgLast.op = "submitGuess"
    /\ cg.attempts = 4
    /\ cgLast.pre.attempts = 3
    /\ 24 - 8 * cg.attempts < 0
    /\ blurLevel(cg.attempts) = 0
    /\ blurLevel(cgLast.pre.attempts) = 0

(***************************************************************************)
(* Claims about the server actions                                         *)
(***************************************************************************)
\* The fixed fallback content of each action.
FallbackOf(action) ==
    CASE action = "fetchDailyWord"
           -> [word |-> "PANDA", hint |-> "Um urso preto e branco da China."]
      [] action = "fetchDailySentence"
           -> [sentence |-> "The cat is on the table."]
      [] action = "fetchNewStory"
           -> StoryFallback

\* The flow failed, or a field of `fields` is missing or empty in its result.
FailedOrLacks(outcome, fields) ==
    \/ outcome.kind # "object"
    \/ \E f \in fields : outcome.value[f] \in {Undefined, ""}

\* The last call did not throw, returned the fallback when the flow failed
\* or its result lacked one of `fields`, and the result itself otherwise.
FallbackExactlyWhenLacking(fields) ==
    /\ ~sa.did.threw
    /\ FailedOrLacks(sa.outcome, fields) => sa.did.value = FallbackOf(sa.action)
    /\ ~FailedOrLacks(sa.outcome, fields) => sa.did.value = sa.outcome.value

\* C24: no action throws; each returns its fixed fallback when the flow
\* fails, resolves with null, or resolves with a result in which a field the
\* action requires (word and hint; sentence; title, content and level) is
\* missing or empty; and it returns the result unchanged otherwise.
C24_FallbackOnTestedFields ==
    /\ sa.action = "fetchDailyWord"
          => FallbackExactlyWhenLacking({"word", "hint"})
    /\ sa.action = "fetchDailySentence"
          => FallbackExactlyWhenLacking({"sentence"})
    /\ sa.action = "fetchNewStory"
          => FallbackExactlyWhenLacking({"title", "content", "level"})

\* A story with a title and a content but an empty level was replaced by
\* the fallback story.
C24_Witness ==
    /\ sa.action = "fetchNewStory"
    /\ sa.outcome.kind = "object"
    /\ sa.outcome.value.title = "The Red Kite"
    /\ sa.outcome.value.content \notin {Undefined, ""}
    /\ sa.outcome.value.level = ""
    /\ ~sa.did.threw
    /\ sa.did.value = StoryFallback
    /\ sa.did.value # sa.outcome.value

(***************************************************************************)
(* Claims about MemoryGamePage, continued                                  *)
(***************************************************************************)
\* The positions of `cards` that hold a matched card.
MatchedPositions(cards) == { i \in 1..Len(cards) : cards[i].isMatched }

\* C25: every matched card is face-up and the matched cards are even in
\* number; and as long as the deck is not replaced by a new one, a card
\* that was matched stays matched and face-up, through flips, matches and
\* the flip-back of a mismatched pair.
C25_MatchedStaysMatchedFaceUp ==
    /\ \A i \in MatchedPositions(mg.cards) : mg.cards[i].isFlipped
    /\ Cardinality(MatchedPositions(mg.cards)) % 2 = 0
    /\ mgLast.op \in {"flip", "checkMatch", "flipBack", "completeGame",
                       "start", "loadFailed"}
          => /\ Len(mg.cards) = Len(mgLast.pre.cards)
             /\ \A i \in MatchedPositions(mgLast.pre.cards) :
                   /\ mg.cards[i].id = mgLast.pre.cards[i].id
                   /\ mg.cards[i].isMatched
                   /\ mg.cards[i].isFlipped

\* A mismatched pair flipped back next to a matched pair that stays
\* face-up.
C25_Witness ==
    /\ mgLast.op = "flipBack"
    /\ Cardinality(MatchedPositions(mgLast.pre.cards)) = 2
    /\ MatchedPositions(mg.cards) = MatchedPositions(mgLast.pre.cards)
    /\ \A i \in MatchedPositions(mg.cards) : mg.cards[i].isFlipped
    /\ \A i \in 1..Len(mg.cards) :
          mg.cards[i].isFlipped <=> mg.cards[i].isMatched
    /\ \E i \in 1..Len(mg.cards) :
          mgLast.pre.cards[i].isFlipped /\ ~mg.cards[i].isFlipped

=============================================================================
